---------------------------- MODULE Spec2Model ----------------------------
(***************************************************************************)
(* The rediscloud_database resource of terraform-provider-rediscloud:      *)
(* its four handlers (Create, Read, Update, Delete) in                     *)
(* internal/provider/resource_rediscloud_database.go, run by a host that   *)
(* has one operation in flight at a time, against a remote database API.   *)
(*                                                                         *)
(* The model keeps the attributes the handlers branch on or that the       *)
(* properties below speak of; the attributes that are copied field by      *)
(* field with no condition (alerts, modules, source_ips, data_persistence, *)
(* replication, throughput, support_oss_cluster_api) are left out.         *)
(* Strings that the code parses or formats (subscription_id, the resource  *)
(* id) are sequences of characters; the others are TLA+ strings.           *)
(***************************************************************************)
EXTENDS Integers, Sequences, FiniteSets, TLC

VARIABLES
    d,          \* *schema.ResourceData: the configured and computed attributes
    remote,     \* the databases the remote API holds: id -> database
    nextId,     \* the identifier the remote API assigns next
    pc,         \* "idle", or "waiting" while Create is in waitForDatabaseToBeActive
    waitArgs,   \* (subId, id) Create handed to waitForDatabaseToBeActive
    ctxDone,    \* the context of the running Create has been cancelled
    polls,      \* status polls made by the running wait
    calls,      \* remote calls made by the current / last invocation, per kind
    failed,     \* the kinds of remote call that failed in that invocation
    lastReq,    \* the request the current / last invocation built
    observed,   \* the status the last successful poll of the wait saw
    obs,        \* what the last Read got from List and Get
    created,    \* the last successful Create, until another handler than Read runs
    result      \* the handler that returned last, and its diagnostics

vars == <<d, remote, nextId, pc, waitArgs, ctxDone, polls, calls, failed,
          lastReq, observed, obs, created, result>>

---------------------------------------------------------------------------
(* Bounds of the model. *)

\* Identifiers the remote API can hand out in one behaviour.
MaxDbs == 2

\* Polls that fit between the start of the wait and its deadline.
MaxPolls == 2

---------------------------------------------------------------------------
(* Go values. *)

\* A nil pointer and a pointer to v (redis.String, redis.Int, redis.Bool).
Nil == <<>>
Ptr(v) == <<v>>

\* A nil error.
NoErr == "nil"

\* A []*string: Go tells a nil slice from an empty one.
NilSlice == [isNil |-> TRUE, elems |-> {}]
Slice(S) == [isNil |-> FALSE, elems |-> S]

Digits == <<"0", "1", "2", "3", "4", "5", "6", "7", "8", "9">>

IsDigit(c) == \E i \in 1..10 : Digits[i] = c

DigitVal(c) == (CHOOSE i \in 1..10 : Digits[i] = c) - 1

RECURSIVE DigitsVal(_)
DigitsVal(s) ==
    IF s = <<>> THEN 0
    ELSE 10 * DigitsVal(SubSeq(s, 1, Len(s) - 1)) + DigitVal(s[Len(s)])

\* strconv.Atoi: an optional sign, then one or more decimal digits.
AtoiIgnoresErr(s) ==
    [ok |-> TRUE,
     val |-> IF s # <<>> /\ \A i \in 1..Len(s) : IsDigit(s[i])
             THEN DigitsVal(s) ELSE 0]

Atoi(s) ==
    LET signed == s # <<>> /\ s[1] \in {"+", "-"}
        body == IF signed THEN Tail(s) ELSE s
    IN  IF body = <<>> \/ \E i \in 1..Len(body) : ~IsDigit(body[i])
        THEN [ok |-> FALSE, val |-> 0]
        ELSE [ok |-> TRUE,
              val |-> IF signed /\ s[1] = "-" THEN 0 - DigitsVal(body)
                      ELSE DigitsVal(body)]

RECURSIVE NatDigits(_)
NatDigits(n) ==
    IF n < 10 THEN <<Digits[n + 1]>>
    ELSE NatDigits(n \div 10) \o <<Digits[(n % 10) + 1]>>

\* strconv.Itoa, and fmt.Sprintf("%d", n).
Itoa(n) == IF n < 0 THEN <<"-">> \o NatDigits(0 - n) ELSE NatDigits(n)

\* diag.Diagnostics: the sequence of error summaries; empty is success.
NoDiags == <<>>

\* diag.FromErr: a nil error converts to no diagnostics.
FromErr(err) == IF err = NoErr THEN NoDiags ELSE <<err>>

\* diag.Errorf.
Errorf(msg) == <<msg>>

HasError(diags) == diags # NoDiags

ErrAtoi == "strconv.Atoi: invalid syntax"
ErrCreate == "remote: create failed"
ErrList == "remote: list failed"
ErrGet == "remote: get failed"
ErrUpdate == "remote: update failed"
ErrDelete == "remote: delete failed"
ErrNoResults == "Your query returned no results."
ErrAmbiguous == "Your query returned more than one result."
ErrTimeout == "timeout while waiting for state to become 'active'"
ErrCancelled == "context canceled"
ErrUnexpectedState == "unexpected state"


---------------------------------------------------------------------------
(* The attributes of the resource (the schema, lines 33-204). *)

Protocols == {"redis", "memcached"}

\* subscription_id = 7, name = "a", the optional attributes at their defaults.
\* memory_limit_in_gb counts tenths of a GB.
DefaultConfig ==
    [subscription_id |-> <<"7">>,
     name |-> "a",
     protocol |-> "redis",
     memory_limit_in_gb |-> 1,
     password |-> "p",
     average_item_size_in_bytes |-> 0,
     enable_tls |-> FALSE,
     client_ssl_certificate |-> "",
     replica_of |-> {},
     hashing_policy |-> <<>>]

ConfigKeys == DOMAIN DefaultConfig

\* Configurations that differ in the subscription and in what Read filters on.
SubscriptionConfigs ==
    {[DefaultConfig EXCEPT !.subscription_id = s] : s \in {<<"7">>, <<"x">>}}

NameConfigs == {[DefaultConfig EXCEPT !.name = n] : n \in {"", "a"}}

Configs == SubscriptionConfigs \cup NameConfigs

\* Configurations that differ in the subscription and in each attribute the
\* requests encode conditionally.
TlsConfigs ==
    {[DefaultConfig EXCEPT !.enable_tls = t, !.client_ssl_certificate = c] :
        t \in BOOLEAN, c \in {"", "cert"}}

ItemSizeConfigs ==
    {[DefaultConfig EXCEPT !.average_item_size_in_bytes = a] : a \in {-1, 0, 1000}}

ReplicaOfConfigs ==
    {[DefaultConfig EXCEPT !.replica_of = r] : r \in {{}, {"redis://h:1"}}}

WireConfigs ==
    SubscriptionConfigs \cup TlsConfigs \cup ItemSizeConfigs \cup ReplicaOfConfigs

\* A new resource: the configuration, no id, the computed attributes unset.
NewResource(c) ==
    [k \in ConfigKeys \cup {"id", "public_endpoint", "private_endpoint"} |->
        IF k \in ConfigKeys THEN c[k] ELSE <<>>]

\* The configuration of a resource changed to c; id and computed attributes stay.
WithConfig(res, c) ==
    [k \in DOMAIN res |-> IF k \in ConfigKeys THEN c[k] ELSE res[k]]

---------------------------------------------------------------------------
(* Building the requests. *)

\* setToStringSlice: the elements of the set; for an empty set the slice may
\* be nil or empty (Update guards against nil).
setToStringSlice(set) ==
    IF set = {} THEN {NilSlice, Slice({})} ELSE {Slice(set)}

\* Create, lines 258-261: if averageItemSize > 0 { ... = redis.Int(averageItemSize) }
CreateAverageItemSizeAlways(averageItemSize) == Ptr(averageItemSize)

CreateAverageItemSize(averageItemSize) ==
    IF averageItemSize > 0 THEN Ptr(averageItemSize) ELSE Nil

\* Create, lines 264-281.
CreateTlsAlwaysFlag(enableTLS, clientSSLCertificate) ==
    [EnableTls |-> Ptr(enableTLS),
     ClientSSLCertificate |->
        IF clientSSLCertificate # "" THEN Ptr(clientSSLCertificate) ELSE Nil]

CreateTls(enableTLS, clientSSLCertificate) ==
    IF enableTLS
    THEN [EnableTls |-> Ptr(enableTLS),
          ClientSSLCertificate |->
             IF clientSSLCertificate # "" THEN Ptr(clientSSLCertificate) ELSE Nil]
    ELSE IF clientSSLCertificate # ""
         THEN [EnableTls |-> Nil, ClientSSLCertificate |-> Ptr(clientSSLCertificate)]
         ELSE [EnableTls |-> Ptr(enableTLS), ClientSSLCertificate |-> Nil]

\* Update, lines 464-482.
UpdateTls(enableTLS, clientSSLCertificate) ==
    IF enableTLS
    THEN [EnableTls |-> Ptr(enableTLS),
          ClientSSLCertificate |->
             IF clientSSLCertificate # "" THEN Ptr(clientSSLCertificate) ELSE Nil]
    ELSE IF clientSSLCertificate # ""
         THEN [EnableTls |-> Nil, ClientSSLCertificate |-> Ptr(clientSSLCertificate)]
         ELSE [EnableTls |-> Ptr(enableTLS), ClientSSLCertificate |-> Nil]

\* Update, lines 459-462: a nil slice is replaced by make([]*string, 0).
UpdateReplicaOfUnguarded(slice) == slice

UpdateReplicaOf(slice) == IF slice.isNil THEN Slice({}) ELSE slice

\* Update, lines 484-487.
UpdateRegexRules(regex) == IF Len(regex) # 0 THEN Ptr(regex) ELSE Nil

\* databases.CreateDatabase as Create fills it, lines 239-281.
CreateDatabase(res, replicaOf) ==
    LET tls == CreateTls(res.enable_tls, res.client_ssl_certificate)
    IN  [kind |-> "create",
         Name |-> Ptr(res.name),
         Protocol |-> Ptr(res.protocol),
         MemoryLimitInGB |-> Ptr(res.memory_limit_in_gb),
         ReplicaOf |-> replicaOf,
         Password |-> Ptr(res.password),
         AverageItemSizeInBytes |->
            CreateAverageItemSize(res.average_item_size_in_bytes),
         EnableTls |-> tls.EnableTls,
         ClientSSLCertificate |-> tls.ClientSSLCertificate]

\* databases.UpdateDatabase as Update fills it, lines 444-487. It has no
\* Protocol and no AverageItemSizeInBytes.
UpdateDatabase(res, replicaOf) ==
    LET tls == UpdateTls(res.enable_tls, res.client_ssl_certificate)
    IN  [kind |-> "update",
         Name |-> Ptr(res.name),
         MemoryLimitInGB |-> Ptr(res.memory_limit_in_gb),
         Password |-> Ptr(res.password),
         ReplicaOf |-> UpdateReplicaOf(replicaOf),
         EnableTls |-> tls.EnableTls,
         ClientSSLCertificate |-> tls.ClientSSLCertificate,
         RegexRules |-> UpdateRegexRules(res.hashing_policy)]

NoReq == [kind |-> "none"]


---------------------------------------------------------------------------
(* The remote API (github.com/RedisLabs/rediscloud-go-api). It reports no   *)
(* replica-of endpoints, and never hands out an identifier twice.          *)

redisStringValue(p) == IF p = Nil THEN "" ELSE p[1]

redisIntValue(p) == IF p = Nil THEN 0 ELSE p[1]

\* The identifiers the API hands out, in this order.
DbIds == 9 .. (8 + MaxDbs)

\* Databases other clients of the API create.
ForeignDbs ==
    {[sub |-> 7, name |-> "a", protocol |-> "redis", memory |-> 5,
      password |-> "q", status |-> "active",
      rules |-> {[Ordinal |-> 0, Pattern |-> "r"]}],
     [sub |-> 7, name |-> "b", protocol |-> "redis", memory |-> 5,
      password |-> "", status |-> "active", rules |-> {}],
     [sub |-> 7, name |-> "a", protocol |-> "memcached", memory |-> 5,
      password |-> "q", status |-> "active", rules |-> {}]}

\* remote without the database id.
Without(id) == [i \in DOMAIN remote \ {id} |-> remote[i]]

Exists(subId, id) == id \in DOMAIN remote /\ remote[id].sub = subId

\* The database the API makes of a create request.
CreatedDb(subId, create) ==
    [sub |-> subId,
     name |-> redisStringValue(create.Name),
     protocol |-> redisStringValue(create.Protocol),
     memory |-> create.MemoryLimitInGB[1],
     password |-> redisStringValue(create.Password),
     status |-> "pending",
     rules |-> {}]

\* The database after the API applied an update request.
RegexRulesOf(patterns) ==
    {[Ordinal |-> i - 1, Pattern |-> patterns[i]] : i \in 1..Len(patterns)}

UpdatedDb(db, update) ==
    [db EXCEPT !.name = redisStringValue(update.Name),
               !.memory = update.MemoryLimitInGB[1],
               !.password = redisStringValue(update.Password),
               !.rules = IF update.RegexRules = Nil THEN @
                         ELSE RegexRulesOf(update.RegexRules[1])]

PublicEndpoint(id) == <<"public", id>>
PrivateEndpoint(id) == <<"private", id>>

\* databases.Database as the single-entity Get returns it.
GetView(id) ==
    LET db == remote[id]
    IN  [ID |-> Ptr(id),
         Name |-> Ptr(db.name),
         Protocol |-> Ptr(db.protocol),
         MemoryLimitInGB |-> Ptr(db.memory),
         Password |-> Ptr(db.password),
         PublicEndpoint |-> Ptr(PublicEndpoint(id)),
         PrivateEndpoint |-> Ptr(PrivateEndpoint(id)),
         RegexRules |-> db.rules,
         Status |-> Ptr(db.status)]

\* databases.Database as List returns it: no password, no clustering rules.
ListView(id) == [GetView(id) EXCEPT !.Password = Nil, !.RegexRules = {}]

\* List(ctx, subId): the entries of the subscription.
RemoteList(subId) == {ListView(id) : id \in {i \in DOMAIN remote : Exists(subId, i)}}

\* Get(ctx, subId, id); transient says that the call fails for another reason
\* than the database not being there.
RemoteGet(subId, id, transient) ==
    IF transient \/ ~Exists(subId, id)
    THEN [err |-> ErrGet, db |-> Nil]
    ELSE [err |-> NoErr, db |-> Ptr(GetView(id))]

NoCalls == [Create |-> 0, List |-> 0, Get |-> 0, Update |-> 0, Delete |-> 0]

Called(c, kind) == [c EXCEPT ![kind] = @ + 1]


---------------------------------------------------------------------------
(* The provisioning wait, waitForDatabaseToBeActive. *)

\* What one poll makes of the Get it did: a failed Get is tolerated, "active"
\* ends the wait, "pending" continues it, any other status fails it.
PollOutcomeErrTerminal(getErr, status) ==
    IF getErr # NoErr THEN "fail"
    ELSE IF status = "active" THEN "done"
    ELSE IF status = "pending" THEN "continue"
    ELSE "fail"

PollOutcomeFailContinues(getErr, status) ==
    IF getErr = NoErr /\ status = "active" THEN "done" ELSE "continue"

PollOutcome(getErr, status) ==
    IF getErr # NoErr THEN "continue"
    ELSE IF status = "active" THEN "done"
    ELSE IF status = "pending" THEN "continue"
    ELSE "fail"

\* Create, line 300: the arguments of the wait.
WaitArgs(subId, id) == [sub |-> subId, id |-> id]

NoWait == [sub |-> 0, id |-> 0]

\* Create, line 296: d.SetId(strconv.Itoa(id)), before the wait.
CreateSetIdSkipped(res, id) == res

CreateSetId(res, id) == [res EXCEPT !.id = Itoa(id)]

\* Create, lines 300-304: the error of the wait is returned, else diags.
CreateReturnDropsErr(waitErr) == NoDiags

CreateReturn(waitErr) ==
    IF waitErr # NoErr THEN FromErr(waitErr) ELSE NoDiags

---------------------------------------------------------------------------
(* Read's helpers. *)

\* d.GetOk: set, and not the zero value.
GetOk(v) == v # ""

\* Read, lines 316-326: the filters, named by the attribute they compare.
ReadFilters(res) ==
    (IF GetOk(res.name) THEN {"name"} ELSE {})
    \cup (IF GetOk(res.protocol) THEN {"protocol"} ELSE {})

FilterHolds(f, res, db) ==
    IF f = "name" THEN redisStringValue(db.Name) = res.name
    ELSE redisStringValue(db.Protocol) = res.protocol

\* filterDatabases: the entries every filter holds of, or the error of the list.
filterDatabases(list, listErr, filters, res) ==
    IF listErr # NoErr THEN [dbs |-> {}, err |-> listErr]
    ELSE [dbs |-> {db \in list : \A f \in filters : FilterHolds(f, res, db)},
          err |-> NoErr]

\* flattenRegexRules: the patterns, by ordinal.
flattenRegexRules(rules) ==
    [i \in 1..Cardinality(rules) |->
        (CHOOSE r \in rules : r.Ordinal = i - 1).Pattern]

\* Read, lines 348-398: the attributes set from the database Get returned.
ReadSetState(res, db) ==
    [res EXCEPT !.id = Itoa(redisIntValue(db.ID)),
                !.name = redisStringValue(db.Name),
                !.protocol = redisStringValue(db.Protocol),
                !.memory_limit_in_gb = db.MemoryLimitInGB[1],
                !.password = IF redisStringValue(db.Password) # ""
                             THEN redisStringValue(db.Password) ELSE @,
                !.public_endpoint = db.PublicEndpoint[1],
                !.private_endpoint = db.PrivateEndpoint[1],
                !.hashing_policy = flattenRegexRules(db.RegexRules)]

\* What a Read saw: the attributes it was called with, the number of entries
\* that passed the filters, and the database Get returned.
Observed(res, n, got) ==
    [name |-> res.name, protocol |-> res.protocol, password |-> res.password,
     n |-> n, got |-> got]

NoObs == [name |-> "", protocol |-> "", password |-> "", n |-> 0, got |-> Nil]

\* Delete, lines 421-428: diag.FromErr(dbErr) is dropped, diags is returned.
DeleteReturnPropagates(dbErr) == FromErr(dbErr)

DeleteReturn(dbErr) == NoDiags

\* Update, lines 508-512.
UpdateReturn(err) == IF err # NoErr THEN FromErr(err) ELSE NoDiags


---------------------------------------------------------------------------
(* The state after construction: a new resource, an empty subscription. *)

NoResult == [op |-> "none", diags |-> NoDiags]

InitWith(C) ==
    /\ d \in {NewResource(c) : c \in C}
    /\ remote = << >>
    /\ nextId = 9
    /\ pc = "idle"
    /\ waitArgs = NoWait
    /\ ctxDone = FALSE
    /\ polls = 0
    /\ calls = NoCalls
    /\ failed = {}
    /\ lastReq = NoReq
    /\ observed = "none"
    /\ obs = NoObs
    /\ created = Nil
    /\ result = NoResult

Init == InitWith(Configs)

InitWire == InitWith(WireConfigs)

\* A handler returns diags having made the calls c, of which the kinds f failed.
Return(op, diags, c, f, req) ==
    /\ pc' = "idle"
    /\ result' = [op |-> op, diags |-> diags]
    /\ calls' = c
    /\ failed' = f
    /\ lastReq' = req

---------------------------------------------------------------------------
(* resourceRedisCloudDatabaseCreate, lines 207-305. The host calls it for a *)
(* resource that has no id yet.                                            *)

Create ==
    /\ pc = "idle"
    /\ d.id = <<>>
    /\ ctxDone' = FALSE
    /\ polls' = 0
    /\ observed' = "none"
    /\ obs' = NoObs
    /\ created' = Nil
    /\ LET subId == Atoi(d.subscription_id)
       IN  IF ~subId.ok
           THEN /\ Return("Create", FromErr(ErrAtoi), NoCalls, {}, NoReq)
                /\ UNCHANGED <<d, remote, nextId>>
                /\ waitArgs' = NoWait
           ELSE \E replicaOf \in setToStringSlice(d.replica_of), fails \in BOOLEAN :
                    LET create == CreateDatabase(d, replicaOf)
                        id == nextId
                    IN  IF fails \/ id \notin DbIds
                        THEN /\ Return("Create", FromErr(ErrCreate),
                                       Called(NoCalls, "Create"), {"Create"}, create)
                             /\ UNCHANGED <<d, remote, nextId>>
                             /\ waitArgs' = NoWait
                        ELSE /\ remote' = remote @@ (id :> CreatedDb(subId.val, create))
                             /\ nextId' = id + 1
                             /\ d' = CreateSetId(d, id)
                             /\ waitArgs' = WaitArgs(subId.val, id)
                             /\ pc' = "waiting"
                             /\ result' = NoResult
                             /\ calls' = Called(NoCalls, "Create")
                             /\ failed' = {}
                             /\ lastReq' = create

\* Create, lines 300-304, once the wait has ended with waitErr.
CreateFinish(waitErr, c, f) ==
    LET diags == CreateReturn(waitErr)
    IN  /\ Return("Create", diags, c, f, lastReq)
        /\ created' = IF HasError(diags) THEN Nil
                      ELSE Ptr([id |-> waitArgs.id,
                                name |-> redisStringValue(lastReq.Name),
                                protocol |-> redisStringValue(lastReq.Protocol),
                                memory |-> lastReq.MemoryLimitInGB[1]])
        /\ UNCHANGED <<d, remote, nextId, waitArgs, ctxDone, obs>>

\* One poll of the wait: a Get of the database, before the deadline and
\* while the context is not cancelled.
WaitPoll ==
    /\ pc = "waiting"
    /\ ~ctxDone
    /\ polls < MaxPolls
    /\ \E transient \in BOOLEAN :
          LET get == RemoteGet(waitArgs.sub, waitArgs.id, transient)
              status == IF get.err = NoErr
                        THEN redisStringValue(get.db[1].Status) ELSE ""
              outcome == PollOutcome(get.err, status)
              c == Called(calls, "Get")
              f == IF get.err = NoErr THEN failed ELSE failed \cup {"Poll"}
          IN  /\ polls' = polls + 1
              /\ observed' = IF get.err = NoErr THEN status ELSE observed
              /\ IF outcome = "continue"
                 THEN /\ calls' = c
                      /\ failed' = f
                      /\ UNCHANGED <<d, remote, nextId, pc, waitArgs, ctxDone,
                                     lastReq, obs, created, result>>
                 ELSE CreateFinish(IF outcome = "done" THEN NoErr
                                   ELSE ErrUnexpectedState, c, f)

\* The deadline of the wait passes.
WaitTimeout ==
    /\ pc = "waiting"
    /\ ~ctxDone
    /\ polls >= MaxPolls
    /\ CreateFinish(ErrTimeout, calls, failed)
    /\ UNCHANGED <<polls, observed>>

\* The wait finds its context cancelled.
WaitCancelled ==
    /\ pc = "waiting"
    /\ ctxDone
    /\ CreateFinish(ErrCancelled, calls, failed)
    /\ UNCHANGED <<polls, observed>>

\* The caller cancels the context of the running Create.
CtxCancel ==
    /\ pc = "waiting"
    /\ ~ctxDone
    /\ ctxDone' = TRUE
    /\ UNCHANGED <<d, remote, nextId, pc, waitArgs, polls, calls, failed,
                   lastReq, observed, obs, created, result>>


---------------------------------------------------------------------------
(* resourceRedisCloudSDatabaseRead, lines 307-401. The host calls Read,    *)
(* Update and Delete for a resource that has an id.                        *)

\* Read, lines 343-346: the error handed to diag.FromErr when Get fails is
\* list.Err(), which is nil once the list has been read to its end.
ReadGetError(listErr, getErr) == FromErr(listErr)

Read ==
    /\ pc = "idle"
    /\ d.id # <<>>
    /\ UNCHANGED <<remote, nextId, waitArgs, ctxDone, polls, observed, created>>
    /\ LET subId == Atoi(d.subscription_id)
       IN  IF ~subId.ok
           THEN /\ Return("Read", FromErr(ErrAtoi), NoCalls, {}, NoReq)
                /\ obs' = NoObs
                /\ UNCHANGED d
           ELSE \E listFails \in BOOLEAN, getFails \in BOOLEAN :
                    LET listErr == IF listFails THEN ErrList ELSE NoErr
                        filtered == filterDatabases(RemoteList(subId.val), listErr,
                                                    ReadFilters(d), d)
                        dbs == filtered.dbs
                        c1 == Called(NoCalls, "List")
                    IN  IF filtered.err # NoErr
                        THEN /\ Return("Read", FromErr(listErr), c1, {"List"}, NoReq)
                             /\ obs' = NoObs
                             /\ UNCHANGED d
                        ELSE IF Cardinality(dbs) = 0
                        THEN /\ Return("Read", Errorf(ErrNoResults), c1, {}, NoReq)
                             /\ obs' = Observed(d, 0, Nil)
                             /\ UNCHANGED d
                        ELSE IF Cardinality(dbs) > 1
                        THEN /\ Return("Read", Errorf(ErrAmbiguous), c1, {}, NoReq)
                             /\ obs' = Observed(d, Cardinality(dbs), Nil)
                             /\ UNCHANGED d
                        ELSE LET entry == CHOOSE e \in dbs : TRUE
                                 get == RemoteGet(subId.val, redisIntValue(entry.ID),
                                                  getFails)
                                 c2 == Called(c1, "Get")
                             IN  IF get.err # NoErr
                                 THEN /\ Return("Read", ReadGetError(listErr, get.err),
                                                c2, {"Get"}, NoReq)
                                      /\ obs' = Observed(d, 1, Nil)
                                      /\ UNCHANGED d
                                 ELSE /\ Return("Read", NoDiags, c2, {}, NoReq)
                                      /\ obs' = Observed(d, 1, get.db)
                                      /\ d' = ReadSetState(d, get.db[1])

---------------------------------------------------------------------------
(* resourceRedisCloudDatabaseDelete, lines 403-429. *)

Delete ==
    /\ pc = "idle"
    /\ d.id # <<>>
    /\ UNCHANGED <<nextId, ctxDone, polls, observed>>
    /\ obs' = NoObs
    /\ created' = Nil
    /\ LET subId == Atoi(d.subscription_id)
           databaseId == Atoi(d.id)
       IN  IF ~subId.ok \/ ~databaseId.ok
           THEN /\ Return("Delete", FromErr(ErrAtoi), NoCalls, {}, NoReq)
                /\ waitArgs' = NoWait
                /\ UNCHANGED <<d, remote>>
           ELSE \E transient \in BOOLEAN :
                    LET ok == ~transient /\ Exists(subId.val, databaseId.val)
                        dbErr == IF ok THEN NoErr ELSE ErrDelete
                    IN  /\ remote' = IF ok THEN Without(databaseId.val) ELSE remote
                        /\ d' = [d EXCEPT !.id = <<>>]
                        /\ waitArgs' = WaitArgs(subId.val, databaseId.val)
                        /\ Return("Delete", DeleteReturn(dbErr),
                                  Called(NoCalls, "Delete"),
                                  IF ok THEN {} ELSE {"Delete"},
                                  [kind |-> "delete",
                                   existed |-> Exists(subId.val, databaseId.val)])

---------------------------------------------------------------------------
(* resourceRedisCloudDatabaseUpdate, lines 431-513. *)

Update ==
    /\ pc = "idle"
    /\ d.id # <<>>
    /\ UNCHANGED <<d, nextId, waitArgs, ctxDone, polls, observed>>
    /\ obs' = NoObs
    /\ created' = Nil
    /\ \E replicaOf \in setToStringSlice(d.replica_of) :
          LET update == UpdateDatabase(d, replicaOf)
              subId == Atoi(d.subscription_id)
              databaseId == Atoi(d.id)
          IN  IF ~subId.ok \/ ~databaseId.ok
              THEN /\ Return("Update", FromErr(ErrAtoi), NoCalls, {}, update)
                   /\ UNCHANGED remote
              ELSE \E transient \in BOOLEAN :
                      LET ok == ~transient /\ Exists(subId.val, databaseId.val)
                          err == IF ok THEN NoErr ELSE ErrUpdate
                      IN  /\ remote' = IF ok
                                       THEN [remote EXCEPT ![databaseId.val] =
                                                UpdatedDb(@, update)]
                                       ELSE remote
                          /\ Return("Update", UpdateReturn(err),
                                    Called(NoCalls, "Update"),
                                    IF ok THEN {} ELSE {"Update"}, update)

---------------------------------------------------------------------------
(* The host and the other clients of the remote API. *)

\* The host changes the configuration between two operations.
HostEditTo(C) ==
    /\ pc = "idle"
    /\ \E c \in C : d' = WithConfig(d, c)
    /\ d' # d
    /\ waitArgs' = NoWait
    /\ ctxDone' = FALSE
    /\ polls' = 0
    /\ calls' = NoCalls
    /\ failed' = {}
    /\ lastReq' = NoReq
    /\ observed' = "none"
    /\ obs' = NoObs
    /\ created' = Nil
    /\ result' = NoResult
    /\ UNCHANGED <<remote, nextId, pc>>

HostEdit == HostEditTo(Configs)

HostEditWire == HostEditTo(WireConfigs)

\* calls, failed, lastReq, observed, obs and result describe the invocation
\* that is running or has just returned: a step of another client while no
\* invocation runs resets them.
OtherClientStep ==
    /\ UNCHANGED <<d, pc, created>>
    /\ IF pc = "idle"
       THEN /\ waitArgs' = NoWait
            /\ ctxDone' = FALSE
            /\ polls' = 0
            /\ calls' = NoCalls
            /\ failed' = {}
            /\ lastReq' = NoReq
            /\ observed' = "none"
            /\ obs' = NoObs
            /\ result' = NoResult
       ELSE UNCHANGED <<waitArgs, ctxDone, polls, calls, failed, lastReq,
                        observed, obs, result>>

\* Another client creates a database.
ForeignCreate ==
    /\ nextId \in DbIds
    /\ \E db \in ForeignDbs : remote' = remote @@ (nextId :> db)
    /\ nextId' = nextId + 1
    /\ OtherClientStep

\* Another client deletes a database.
ForeignDelete ==
    /\ \E id \in DOMAIN remote : remote' = Without(id)
    /\ UNCHANGED nextId
    /\ OtherClientStep

\* The API finishes provisioning a pending database, or fails to.
Provision ==
    /\ \E id \in DOMAIN remote, st \in {"active", "error"} :
          /\ remote[id].status = "pending"
          /\ remote' = [remote EXCEPT ![id].status = st]
    /\ UNCHANGED nextId
    /\ OtherClientStep

Next ==
    \/ Create
    \/ WaitPoll
    \/ WaitTimeout
    \/ WaitCancelled
    \/ CtxCancel
    \/ Read
    \/ Update
    \/ Delete
    \/ HostEdit
    \/ ForeignCreate
    \/ ForeignDelete
    \/ Provision

Spec == Init /\ [][Next]_vars

\* The same handlers under the configurations that differ in what the
\* requests encode; the other clients of the API stay out of the subscription.
NextWire ==
    \/ Create
    \/ WaitPoll
    \/ WaitTimeout
    \/ WaitCancelled
    \/ CtxCancel
    \/ Read
    \/ Update
    \/ Delete
    \/ HostEditWire
    \/ Provision

SpecWire == InitWire /\ [][NextWire]_vars

\* The handlers and the life of the databases they create: the other clients
\* of the API delete databases but create none.
NextLifecycle ==
    \/ Create
    \/ WaitPoll
    \/ WaitTimeout
    \/ WaitCancelled
    \/ CtxCancel
    \/ Read
    \/ Update
    \/ Delete
    \/ HostEdit
    \/ ForeignDelete
    \/ Provision

SpecLifecycle == Init /\ [][NextLifecycle]_vars


---------------------------------------------------------------------------
(* Properties. *)

Returned(op) == pc = "idle" /\ result.op = op

\* The resolution table of the TLS / mTLS encoding policy.
TlsTable(enable_tls, cert) ==
    CASE enable_tls /\ cert = "" ->
            [EnableTls |-> Ptr(TRUE), ClientSSLCertificate |-> Nil]
      [] enable_tls /\ cert # "" ->
            [EnableTls |-> Ptr(TRUE), ClientSSLCertificate |-> Ptr(cert)]
      [] ~enable_tls /\ cert # "" ->
            [EnableTls |-> Nil, ClientSSLCertificate |-> Ptr(cert)]
      [] ~enable_tls /\ cert = "" ->
            [EnableTls |-> Ptr(FALSE), ClientSSLCertificate |-> Nil]

\* C1: every request Create or Update builds encodes enable_tls and
\* client_ssl_certificate as the resolution table says: (true, empty) ->
\* EnableTls = true, no certificate; (true, cert) -> EnableTls = true and the
\* certificate; (false, cert) -> the certificate, EnableTls unset; (false,
\* empty) -> EnableTls = false, no certificate. Both handlers follow the same
\* table, so they encode the same inputs the same way.
C1_TlsEncoding ==
    lastReq.kind \in {"create", "update"} =>
        /\ lastReq.EnableTls =
              TlsTable(d.enable_tls, d.client_ssl_certificate).EnableTls
        /\ lastReq.ClientSSLCertificate =
              TlsTable(d.enable_tls, d.client_ssl_certificate).ClientSSLCertificate

\* A Create request in the legacy mutual-TLS case: the certificate, no flag.
C1_Witness ==
    /\ lastReq.kind = "create"
    /\ ~d.enable_tls
    /\ d.client_ssl_certificate = "cert"
    /\ lastReq.EnableTls = Nil
    /\ lastReq.ClientSSLCertificate = Ptr("cert")

\* C4: every request Update builds carries a replica-of collection that is
\* not nil and holds exactly the configured replica_of set; for an empty set
\* it is an empty collection.
C4_ReplicaOfResent ==
    lastReq.kind = "update" =>
        /\ ~lastReq.ReplicaOf.isNil
        /\ lastReq.ReplicaOf.elems = d.replica_of

\* An Update of a resource whose replica_of is empty, after a request that
\* carried a replica: the request holds an empty collection.
C4_Witness ==
    /\ Returned("Update")
    /\ lastReq.kind = "update"
    /\ d.replica_of = {}
    /\ lastReq.ReplicaOf = Slice({})

\* The average item size a request puts on the wire; Nil when the request
\* has no such field or leaves it unset.
WireAverageItemSize(req) ==
    IF "AverageItemSizeInBytes" \in DOMAIN req THEN req.AverageItemSizeInBytes
    ELSE Nil

\* C5 as stated: in every request (of Create and of Update) an
\* average_item_size_in_bytes of 0 is left unset and a positive value is sent
\* unchanged.
C5_AsStated ==
    lastReq.kind \in {"create", "update"} =>
        /\ d.average_item_size_in_bytes = 0 => WireAverageItemSize(lastReq) = Nil
        /\ d.average_item_size_in_bytes > 0 =>
              WireAverageItemSize(lastReq) = Ptr(d.average_item_size_in_bytes)

\* C5, amended: in the request Create builds, an average_item_size_in_bytes
\* of 0 is left unset and a positive value is sent unchanged; the request
\* Update builds never carries the value.
C5_CreateOnly ==
    /\ lastReq.kind = "create" =>
          /\ d.average_item_size_in_bytes = 0 => WireAverageItemSize(lastReq) = Nil
          /\ d.average_item_size_in_bytes > 0 =>
                WireAverageItemSize(lastReq) = Ptr(d.average_item_size_in_bytes)
    /\ lastReq.kind = "update" => WireAverageItemSize(lastReq) = Nil

\* An Update of a resource with a positive average item size.
C5_Witness ==
    /\ Returned("Update")
    /\ lastReq.kind = "update"
    /\ d.average_item_size_in_bytes = 1000
    /\ WireAverageItemSize(lastReq) = Nil


\* The subscription of the resource, and the databases the API lists in it.
SubVal == Atoi(d.subscription_id).val

Listed == {id \in DOMAIN remote : remote[id].sub = SubVal}

\* The patterns of a database's clustering rules, in the order of the ordinals.
PatternsOf(id) ==
    [i \in 1..Cardinality(remote[id].rules) |->
        (CHOOSE r \in remote[id].rules : r.Ordinal = i - 1).Pattern]

\* C2 as stated: a Read whose List succeeded returns the "no results" error
\* when no listed database has both the configured name and the configured
\* protocol, the "more than one result" error when two or more have, and with
\* exactly one it makes one Get of that database, after which (when the Get
\* succeeds) the state holds the fields of the Get result, the password and
\* the hashing rules among them.
C2_AsStated ==
    (Returned("Read") /\ calls.List = 1 /\ "List" \notin failed) =>
        LET matching == {id \in Listed : /\ remote[id].name = obs.name
                                         /\ remote[id].protocol = obs.protocol}
        IN  /\ matching = {} => result.diags = <<ErrNoResults>>
            /\ Cardinality(matching) >= 2 => result.diags = <<ErrAmbiguous>>
            /\ Cardinality(matching) = 1 =>
                  /\ calls.Get = 1
                  /\ "Get" \notin failed =>
                        LET id == CHOOSE i \in matching : TRUE
                        IN  /\ ~HasError(result.diags)
                            /\ d.id = Itoa(id)
                            /\ d.name = remote[id].name
                            /\ d.protocol = remote[id].protocol
                            /\ d.memory_limit_in_gb = remote[id].memory
                            /\ d.public_endpoint = PublicEndpoint(id)
                            /\ d.private_endpoint = PrivateEndpoint(id)
                            /\ d.hashing_policy = PatternsOf(id)
                            /\ remote[id].password # "" =>
                                  d.password = remote[id].password

\* The wait of the Create that returned had started: the remote Create call
\* had succeeded.
WaitStarted == calls.Create = 1 /\ "Create" \notin failed

\* C3: a Create that returns success has seen the status "active" in a
\* poll; a Create whose wait saw nothing but "pending" (or nothing at all)
\* and was not cancelled returns the timeout error, at the deadline.
C3_WaitForActive ==
    Returned("Create") =>
        /\ ~HasError(result.diags) => (observed = "active" /\ calls.Get >= 1)
        /\ (WaitStarted /\ observed \in {"pending", "none"} /\ ~ctxDone) =>
              (result.diags = <<ErrTimeout>> /\ polls >= MaxPolls)

\* A Create that timed out after a poll that saw "pending".
C3_Witness ==
    /\ Returned("Create")
    /\ WaitStarted
    /\ observed = "pending"
    /\ polls >= MaxPolls
    /\ result.diags = <<ErrTimeout>>

\* C6: a Delete whose subscription id and resource id parsed has made one
\* remote Delete call and no other, has cleared the id and returns no error,
\* also when the call failed; a failed call leaves the database it was
\* aimed at in place.
C6_DeleteClearsId ==
    (Returned("Delete") /\ lastReq.kind = "delete") =>
        /\ calls = Called(NoCalls, "Delete")
        /\ d.id = <<>>
        /\ ~HasError(result.diags)
        /\ ("Delete" \in failed /\ lastReq.existed) =>
              Exists(waitArgs.sub, waitArgs.id)

\* A Delete whose remote call failed: no id, no error, the database is there.
C6_Witness ==
    /\ Returned("Delete")
    /\ "Delete" \in failed
    /\ d.id = <<>>
    /\ result.diags = NoDiags
    /\ Exists(waitArgs.sub, waitArgs.id)

\* C7 as stated: when the remote call of Create, the List or the Get of Read,
\* or the remote call of Update fails, the handler returns the error of that
\* call and has made no call after it.
C7_AsStated ==
    (pc = "idle" /\ result.op \in {"Create", "Read", "Update"}) =>
        /\ "Create" \in failed =>
              (result.diags = <<ErrCreate>> /\ calls = Called(NoCalls, "Create"))
        /\ "List" \in failed =>
              (result.diags = <<ErrList>> /\ calls = Called(NoCalls, "List"))
        /\ "Get" \in failed =>
              /\ result.diags = <<ErrGet>>
              /\ calls = Called(Called(NoCalls, "List"), "Get")
        /\ "Update" \in failed =>
              (result.diags = <<ErrUpdate>> /\ calls = Called(NoCalls, "Update"))

\* C8: a Create one of whose polls failed did not end because of it: it
\* returns success when a later poll saw "active", the timeout error only at
\* the deadline, the cancellation error only when cancelled, and otherwise
\* the error of a status that is neither "pending" nor "active".
C8_PollFailureTolerated ==
    (Returned("Create") /\ "Poll" \in failed) =>
        /\ observed = "active" => ~HasError(result.diags)
        /\ HasError(result.diags) =>
              \/ result.diags = <<ErrTimeout>> /\ polls >= MaxPolls /\ ~ctxDone
              \/ result.diags = <<ErrCancelled>> /\ ctxDone
              \/ /\ result.diags = <<ErrUnexpectedState>>
                 /\ observed \notin {"none", "pending", "active"}

\* A Create that returned success after a failed poll.
C8_Witness ==
    /\ Returned("Create")
    /\ "Poll" \in failed
    /\ observed = "active"
    /\ result.diags = NoDiags

\* C9: once the context of a waiting Create is cancelled, no further remote
\* call is made, and the step by which Create returns gives the cancellation
\* error and leaves the remote databases and the resource id as they are.
C9_CancelNoRollback ==
    [][(pc = "waiting" /\ ctxDone) =>
          /\ calls' = calls
          /\ pc' = "idle" =>
                /\ result' = [op |-> "Create", diags |-> <<ErrCancelled>>]
                /\ remote' = remote
                /\ d' = d]_vars

\* A cancelled Create has returned; the database it created is there.
C9_Witness ==
    /\ Returned("Create")
    /\ ctxDone
    /\ result.diags = <<ErrCancelled>>
    /\ calls.Delete = 0
    /\ Exists(waitArgs.sub, waitArgs.id)

\* C10 as stated: a Read that follows a successful Create, with the same
\* subscription, name and protocol, whose remote calls succeed, while the
\* created database is there and no other database of the subscription has
\* its name and protocol, succeeds and yields the created id, name, protocol
\* and memory limit and the endpoints of the server.
C10_AsStated ==
    (/\ Returned("Read")
     /\ created # Nil
     /\ calls.List = 1
     /\ failed = {}) =>
        LET c == created[1]
        IN  (/\ obs.name = c.name
             /\ obs.protocol = c.protocol
             /\ Exists(SubVal, c.id)
             /\ \A id \in Listed \ {c.id} :
                   ~(remote[id].name = c.name /\ remote[id].protocol = c.protocol))
            => /\ ~HasError(result.diags)
               /\ d.id = Itoa(c.id)
               /\ d.name = c.name
               /\ d.protocol = c.protocol
               /\ d.memory_limit_in_gb = c.memory
               /\ d.public_endpoint = PublicEndpoint(c.id)
               /\ d.private_endpoint = PrivateEndpoint(c.id)

---------------------------------------------------------------------------
(* The exits of the provisioning wait. *)

CreateResult(diags) == [op |-> "Create", diags |-> diags]

\* The wait has ended as the statuses decide: "active" seen and success, a
\* terminal failure status seen and its error, or the deadline passed with
\* neither seen and the timeout error.
ExitByStatus ==
    \/ observed = "active" /\ result = CreateResult(NoDiags)
    \/ observed = "error" /\ result = CreateResult(<<ErrUnexpectedState>>)
    \/ /\ observed \in {"pending", "none"}
       /\ polls = MaxPolls
       /\ result = CreateResult(<<ErrTimeout>>)

\* The wait has ended because its context was cancelled.
ExitByCancel ==
    /\ ctxDone
    /\ observed \in {"pending", "none"}
    /\ result = CreateResult(<<ErrCancelled>>)

\* C11 as stated: a wait that has ended has ended in one of three ways:
\* "active" observed and success, a terminal failure status observed and an
\* error, or the deadline passed and the timeout error; in no other way.
C11_AsStated == (Returned("Create") /\ WaitStarted) => ExitByStatus

\* C11, amended: the wait ends in exactly four ways: "active" observed and
\* success, a terminal failure status observed and an error, the deadline
\* passed with neither observed and the timeout error, or its context
\* cancelled and the cancellation error. The poll that observes "active" or
\* a terminal failure status is the last one: the wait ends with that poll,
\* and no poll is made once the wait has ended.
C11_WaitExits ==
    [][/\ pc = "waiting" =>
            /\ observed \in {"pending", "none"}
            /\ observed' \in {"active", "error"} => pc' = "idle"
            /\ pc' = "idle" => (ExitByStatus \/ ExitByCancel)'
       /\ pc = "idle" => polls' \in {polls, 0}]_vars

\* A wait has ended on a terminal failure status, before its deadline.
C11_Witness ==
    /\ Returned("Create")
    /\ WaitStarted
    /\ observed = "error"
    /\ polls < MaxPolls
    /\ result.diags = <<ErrUnexpectedState>>

---------------------------------------------------------------------------
(* The validation of the subscription id. *)

\* s is not an optional sign followed by one or more decimal digits.
NonNumeric(s) ==
    LET body == IF s # <<>> /\ s[1] \in {"+", "-"} THEN Tail(s) ELSE s
    IN  body = <<>> \/ \E i \in 1..Len(body) : body[i] \notin {Digits[j] : j \in 1..10}

\* C12: an invocation of Create, Read, Update or Delete whose subscription
\* id is not a numeric string returns the local validation error, makes no
\* remote API call, changes nothing in the remote, and leaves the local
\* identifier as it was.
C12_NonNumericSubscription ==
    [][(pc = "idle" /\ NonNumeric(d.subscription_id) /\ result'.op # "none") =>
          /\ result'.op \in {"Create", "Read", "Update", "Delete"}
          /\ result'.diags = <<ErrAtoi>>
          /\ calls' = NoCalls
          /\ remote' = remote
          /\ d'.id = d.id
          /\ pc' = "idle"]_vars

\* An Update of a resource that has an id and a subscription id that is not
\* numeric has returned, its request built, the validation error returned.
C12_Witness ==
    /\ Returned("Update")
    /\ NonNumeric(d.subscription_id)
    /\ d.id # <<>>
    /\ lastReq.kind = "update"
    /\ result.diags = <<ErrAtoi>>
    /\ calls = NoCalls

---------------------------------------------------------------------------
(* The local identifier over a Create. *)

\* C13: the remote Create call that succeeds sets the local identifier, to
\* the identifier the remote assigned, before the wait starts; the wait
\* leaves it alone, so a Create whose wait fails returns an error with the
\* identifier still naming the created database; a Create that returns
\* without waiting, its validation or its remote call having failed, returns
\* an error with the identifier unset. At the return of Create the
\* identifier is set if and only if the remote Create call succeeded.
C13_IdSetIffCreated ==
    [][/\ (pc = "idle" /\ pc' = "waiting") =>
            /\ d.id = <<>>
            /\ \E id \in DOMAIN remote' \ DOMAIN remote :
                  /\ DOMAIN remote' = DOMAIN remote \cup {id}
                  /\ d'.id = Itoa(id)
                  /\ waitArgs'.id = id
       /\ pc = "waiting" =>
            /\ d.id = Itoa(waitArgs.id)
            /\ d'.id = d.id
            /\ pc' = "idle" =>
                  /\ result'.op = "Create"
                  /\ HasError(result'.diags) <=> observed' # "active"
       /\ (pc = "idle" /\ result'.op = "Create") =>
            /\ HasError(result'.diags)
            /\ d'.id = <<>>
            /\ remote' = remote
       /\ (pc' = "idle" /\ result'.op = "Create") =>
            (d'.id # <<>> <=> WaitStarted')]_vars

\* A Create whose wait met a terminal failure status has returned its error;
\* the identifier names the database it created, which is still there.
C13_Witness ==
    /\ Returned("Create")
    /\ result.diags = <<ErrUnexpectedState>>
    /\ d.id = Itoa(waitArgs.id)
    /\ Exists(waitArgs.sub, waitArgs.id)
    /\ remote[waitArgs.id].status = "error"

=============================================================================
